---- MODULE Spec2Model ----
(***************************************************************************)
(* Model of package errors (error.go): *Error values carrying a captured   *)
(* call stack, their construction (New, Wrap, WrapPrefix, Errorf), their    *)
(* accessors (Error, Unwrap, Callers) and the lazily memoized frame         *)
(* resolution (StackFrames).                                                *)
(*                                                                         *)
(* Go values are records [kind, id]:                                        *)
(*   kind "nil"    the nil interface value                                  *)
(*   kind "plain"  an error that is not an *Error (id names it)             *)
(*   kind "value"  a value that is not an error (id names it)               *)
(*   kind "fmt"    the error fmt.Errorf("%v", v) builds (id names v,        *)
(*                 0 for v = nil)                                           *)
(*   kind "Error"  a non-nil *Error; id is its address, an index into heap  *)
(* Strings are sequences of one-character strings.                          *)
(***************************************************************************)
EXTENDS Integers, Sequences, FiniteSets, TLC

\* ---------------------------------------------------------------- bounds
MaxObjects == 3      \* *Error values ever allocated while composing
MaxCaptured == 2     \* *Error values ever allocated while resolving frames
MaxChain == 2        \* deepest call chain of a caller of the package
MaxSkip == 1         \* largest skip argument
MaxDepthCfg == 1     \* largest value a program assigns to MaxStackDepth
NumProcs == 2        \* goroutines formatting the same *Error

\* ------------------------------------------------------ program constants
DefaultMaxStackDepth == 50

PlainIds == {1}
ValueIds == {1}
Prefixes == {<<>>, <<"A">>, <<"B">>}
Procs == 1..NumProcs

\* program counters of the package's own functions on the goroutine stack
PcCallers == 100
PcNew == 101
PcWrapInner == 102
PcWrap == 103
PcWrapPrefix == 104
PcErrorf == 105

VARIABLES
    MaxStackDepth,  \* the package variable
    heap,           \* the *Error values allocated so far; address = index
    last,           \* the latest call: its arguments and its results
    pc,             \* per goroutine: position inside StackFrames
    idx,            \* per goroutine: the range loop's index i
    out             \* per goroutine: the frames its caller read from the result

vars == <<MaxStackDepth, heap, last, pc, idx, out>>

Min(a, b) == IF a < b THEN a ELSE b
Max(a, b) == IF a > b THEN a ELSE b

Val(k, i) == [kind |-> k, id |-> i]
NilVal == Val("nil", 0)
IsError(v) == v.kind = "Error"

\* the stack of a caller of the package, innermost frame first
UserChain(d) == [k \in 1..d |-> d - k + 1]

\* ------------------------------------------------------------- externals
\* fmt.Sprintf("%s: %s", a, b)
Sprintf(a, b) == a \o <<":", " ">> \o b

\* fmt.Errorf("%v", e)
FmtErrorf(e) == Val("fmt", IF e.kind = "nil" THEN 0 ELSE e.id)

\* runtime.Callers(skip, buf) with len(buf) = n on goroutine stack gs
\* (gs[1] is the frame of runtime.Callers itself): the pcs written
Callers(skip, n, gs) ==
    LET length == Min(n, Max(Len(gs) - skip, 0))
    IN  [k \in 1..length |-> gs[skip + k]]

\* StackFrame: the zero value and NewStackFrame(pc)
ZeroFrame == [ProgramCounter |-> 0, resolved |-> FALSE]
NewStackFrame(p) == [ProgramCounter |-> p, resolved |-> TRUE]

\* a []StackFrame: the nil slice, and a slice with elements
NilFrames == [isNil |-> TRUE, elems |-> <<>>]
Slice(elems) == [isNil |-> FALSE, elems |-> elems]

\* ------------------------------------------------------------ error.go
\* &Error{Err: err, stack: stack, prefix: prefix}
ErrorObj(err, stack, prefix) ==
    [Err |-> err, stack |-> stack, frames |-> NilFrames, prefix |-> prefix]

\* func New(e interface{}) error, called with goroutine stack gs
New(h, e, gs) ==
    LET err == IF e.kind \in {"plain", "fmt", "Error"} THEN e ELSE FmtErrorf(e)
        stack == Callers(2, MaxStackDepth, <<PcCallers, PcNew>> \o gs)
    IN  [heap |-> Append(h, ErrorObj(err, stack, <<>>)),
         ret |-> Val("Error", Len(h) + 1)]

\* faulty wrap: an *Error is handled by the "case error" arm
wrapNoReuse(h, e, skip, gs) ==
    LET err == IF e.kind \in {"plain", "fmt", "Error"} THEN e ELSE FmtErrorf(e)
        stack == Callers(3 + skip, MaxStackDepth,
                         <<PcCallers, PcWrapInner>> \o gs)
    IN  [heap |-> Append(h, ErrorObj(err, stack, <<>>)),
         ret |-> Val("Error", Len(h) + 1)]

\* faulty wrap: the buffer is one entry longer than MaxStackDepth
wrapOffByOne(h, e, skip, gs) ==
    IF IsError(e)
    THEN [heap |-> h, ret |-> e]
    ELSE LET err == IF e.kind \in {"plain", "fmt"} THEN e ELSE FmtErrorf(e)
             stack == Callers(3 + skip, MaxStackDepth + 1,
                              <<PcCallers, PcWrapInner>> \o gs)
         IN  [heap |-> Append(h, ErrorObj(err, stack, <<>>)),
              ret |-> Val("Error", Len(h) + 1)]

\* func wrap(e interface{}, skip int) *Error
wrap(h, e, skip, gs) ==
    IF IsError(e)
    THEN [heap |-> h, ret |-> e]
    ELSE LET err == IF e.kind \in {"plain", "fmt"} THEN e ELSE FmtErrorf(e)
             stack == Callers(3 + skip, MaxStackDepth,
                              <<PcCallers, PcWrapInner>> \o gs)
         IN  [heap |-> Append(h, ErrorObj(err, stack, <<>>)),
              ret |-> Val("Error", Len(h) + 1)]

\* faulty Wrap: an *Error is copied instead of returned
WrapCopy(h, e, skip, gs) ==
    IF e = NilVal
    THEN [heap |-> h, ret |-> NilVal]
    ELSE IF IsError(e)
         THEN [heap |-> Append(h, h[e.id]), ret |-> Val("Error", Len(h) + 1)]
         ELSE wrap(h, e, skip, <<PcWrap>> \o gs)

\* func Wrap(e interface{}, skip int) error
Wrap(h, e, skip, gs) ==
    IF e = NilVal
    THEN [heap |-> h, ret |-> NilVal]
    ELSE wrap(h, e, skip, <<PcWrap>> \o gs)

\* faulty WrapPrefix: no nil check
WrapPrefixNoNilCheck(h, e, prefix, skip, gs) ==
    LET w == wrap(h, e, skip, <<PcWrapPrefix>> \o gs)
        err == w.heap[w.ret.id]
        p == IF err.prefix # <<>> THEN Sprintf(prefix, err.prefix) ELSE prefix
    IN  [heap |-> Append(w.heap, ErrorObj(err.Err, err.stack, p)),
         ret |-> Val("Error", Len(w.heap) + 1)]

\* faulty WrapPrefix: the existing prefix is put first
WrapPrefixInnerFirst(h, e, prefix, skip, gs) ==
    IF e = NilVal
    THEN [heap |-> h, ret |-> NilVal]
    ELSE LET w == wrap(h, e, skip, <<PcWrapPrefix>> \o gs)
             err == w.heap[w.ret.id]
             p == IF err.prefix # <<>> THEN Sprintf(err.prefix, prefix)
                  ELSE prefix
         IN  [heap |-> Append(w.heap, ErrorObj(err.Err, err.stack, p)),
              ret |-> Val("Error", Len(w.heap) + 1)]

\* faulty WrapPrefix: Err is the *Error wrap returned, not its Err
WrapPrefixKeepsWrapper(h, e, prefix, skip, gs) ==
    IF e = NilVal
    THEN [heap |-> h, ret |-> NilVal]
    ELSE LET w == wrap(h, e, skip, <<PcWrapPrefix>> \o gs)
             err == w.heap[w.ret.id]
             p == IF err.prefix # <<>> THEN Sprintf(prefix, err.prefix)
                  ELSE prefix
         IN  [heap |-> Append(w.heap, ErrorObj(w.ret, err.stack, p)),
              ret |-> Val("Error", Len(w.heap) + 1)]

\* faulty WrapPrefix: the prefix is written into the *Error wrap returned
WrapPrefixInPlace(h, e, prefix, skip, gs) ==
    IF e = NilVal
    THEN [heap |-> h, ret |-> NilVal]
    ELSE LET w == wrap(h, e, skip, <<PcWrapPrefix>> \o gs)
             err == w.heap[w.ret.id]
             p == IF err.prefix # <<>> THEN Sprintf(prefix, err.prefix)
                  ELSE prefix
         IN  [heap |-> [w.heap EXCEPT ![w.ret.id].prefix = p], ret |-> w.ret]

\* func WrapPrefix(e interface{}, prefix string, skip int) error
WrapPrefix(h, e, prefix, skip, gs) ==
    IF e = NilVal
    THEN [heap |-> h, ret |-> NilVal]
    ELSE LET w == wrap(h, e, skip, <<PcWrapPrefix>> \o gs)
             err == w.heap[w.ret.id]
             p == IF err.prefix # <<>> THEN Sprintf(prefix, err.prefix)
                  ELSE prefix
         IN  [heap |-> Append(w.heap, ErrorObj(err.Err, err.stack, p)),
              ret |-> Val("Error", Len(w.heap) + 1)]

\* func Errorf(format string, a ...interface{}) error, with format "%v"
Errorf(h, a, gs) == Wrap(h, FmtErrorf(a), 1, <<PcErrorf>> \o gs)

\* the Error method of a non-nil error value; (*Error).Error for an *Error
RECURSIVE ErrorMsg(_, _)
ErrorMsg(h, v) ==
    CASE v.kind = "plain" -> <<"err", ToString(v.id)>>
      [] v.kind = "fmt" -> IF v.id = 0 THEN <<"<nil>">>
                           ELSE <<"val", ToString(v.id)>>
      [] v.kind = "Error" ->
            LET err == h[v.id]
                msg == ErrorMsg(h, err.Err)
            IN  IF err.prefix # <<>> THEN Sprintf(err.prefix, msg) ELSE msg

\* func (err *Error) Unwrap() error
Unwrap(h, v) == h[v.id].Err

\* func (err *Error) Callers() []uintptr
CallersOf(h, v) == h[v.id].stack

\* StackFrames, line 199: err.frames == nil
FramesNil(h, v) == h[v.id].frames.isNil

\* StackFrames, line 200: err.frames = make([]StackFrame, len(err.stack))
MakeFrames(h, v) ==
    [h EXCEPT ![v.id].frames =
        Slice([k \in 1..Len(h[v.id].stack) |-> ZeroFrame])]

\* StackFrames, line 203: err.frames[i] = NewStackFrame(pc)
StoreFrame(h, v, i) ==
    [h EXCEPT ![v.id].frames.elems[i] = NewStackFrame(h[v.id].stack[i])]

\* StackFrames, lines 202-204: the range loop from index i on
RECURSIVE FillFrames(_, _, _)
FillFrames(h, v, i) ==
    IF i > Len(h[v.id].stack) THEN h
    ELSE FillFrames(StoreFrame(h, v, i), v, i + 1)

\* faulty StackFrames: no test of err.frames
StackFramesNoMemo(h, v) ==
    LET h2 == FillFrames(MakeFrames(h, v), v, 1)
    IN  [heap |-> h2, ret |-> h2[v.id].frames.elems,
         resolved |-> Len(h[v.id].stack)]

\* func (err *Error) StackFrames() []StackFrame, run without interruption:
\* the heap afterwards, the slice returned and the number of NewStackFrame
\* calls made
StackFrames(h, v) ==
    LET h2 == IF FramesNil(h, v) THEN FillFrames(MakeFrames(h, v), v, 1) ELSE h
    IN  [heap |-> h2,
         ret |-> h2[v.id].frames.elems,
         resolved |-> IF FramesNil(h, v) THEN Len(h[v.id].stack) ELSE 0]

\* ------------------------------------------------- callers of the package
Call(op, arg, prefix, skip, depth, ret, slice, resolved) ==
    [op |-> op, arg |-> arg, prefix |-> prefix, skip |-> skip, depth |-> depth,
     ret |-> ret, slice |-> slice, resolved |-> resolved]

NoCall == Call("none", NilVal, <<>>, 0, 0, NilVal, <<>>, 0)

Refs(h) == {Val("Error", i) : i \in DOMAIN h}
Plain == {Val("plain", i) : i \in PlainIds}
Values == {Val("value", i) : i \in ValueIds}

\* the caller's chain is read by runtime.Callers only: a call that captures
\* no stack is made from one chain
DepthsFor(e, depths) ==
    IF e.kind \in {"nil", "Error"} THEN {1} ELSE depths

Init ==
    /\ MaxStackDepth = DefaultMaxStackDepth
    /\ heap = <<>>
    /\ last = NoCall
    /\ pc = [p \in Procs |-> "idle"]
    /\ idx = [p \in Procs |-> 0]
    /\ out = [p \in Procs |-> <<>>]

\* MaxStackDepth = n
SetMaxStackDepth(n) ==
    /\ n # MaxStackDepth
    /\ MaxStackDepth' = n
    /\ last' = [NoCall EXCEPT !.op = "SetMaxStackDepth"]
    /\ UNCHANGED <<heap, pc, idx, out>>

CallNew(e, d, limit) ==
    /\ Len(heap) < limit
    /\ LET r == New(heap, e, UserChain(d))
       IN  /\ heap' = r.heap
           /\ last' = Call("New", e, <<>>, 0, d, r.ret, <<>>, 0)
    /\ UNCHANGED <<MaxStackDepth, pc, idx, out>>

CallWrap(e, skip, d, limit) ==
    /\ LET r == Wrap(heap, e, skip, UserChain(d))
       IN  /\ Len(r.heap) <= limit
           /\ heap' = r.heap
           /\ last' = Call("Wrap", e, <<>>, skip, d, r.ret, <<>>, 0)
    /\ UNCHANGED <<MaxStackDepth, pc, idx, out>>

CallWrapPrefix(e, prefix, skip, d, limit) ==
    /\ LET r == WrapPrefix(heap, e, prefix, skip, UserChain(d))
       IN  /\ Len(r.heap) <= limit
           /\ heap' = r.heap
           /\ last' = Call("WrapPrefix", e, prefix, skip, d, r.ret, <<>>, 0)
    /\ UNCHANGED <<MaxStackDepth, pc, idx, out>>

CallErrorf(a, d, limit) ==
    /\ Len(heap) < limit
    /\ LET r == Errorf(heap, a, UserChain(d))
       IN  /\ heap' = r.heap
           /\ last' = Call("Errorf", a, <<>>, 0, d, r.ret, <<>>, 0)
    /\ UNCHANGED <<MaxStackDepth, pc, idx, out>>

CallStackFrames(v) ==
    /\ LET r == StackFrames(heap, v)
       IN  /\ heap' = r.heap
           /\ last' = Call("StackFrames", v, <<>>, 0, 0, NilVal, r.ret, r.resolved)
    /\ UNCHANGED <<MaxStackDepth, pc, idx, out>>

\* Construction and composition: every kind of value, every prefix and skip,
\* one caller chain, the default MaxStackDepth.
AnyValue == {NilVal} \cup Plain \cup Values \cup Refs(heap)

Next ==
    \/ \E e \in AnyValue : CallNew(e, 1, MaxObjects)
    \/ \E e \in AnyValue, skip \in 0..MaxSkip : CallWrap(e, skip, 1, MaxObjects)
    \/ \E e \in AnyValue, prefix \in Prefixes, skip \in 0..MaxSkip :
          CallWrapPrefix(e, prefix, skip, 1, MaxObjects)
    \/ \E a \in Values \cup {NilVal} : CallErrorf(a, 1, MaxObjects)

Spec == Init /\ [][Next]_vars

\* Stack capture and sequential frame resolution: every chain, skip and
\* MaxStackDepth, plain errors as values (and *Errors for WrapPrefix), the
\* empty prefix.
NextStack ==
    \/ \E n \in (1..MaxDepthCfg) \cup {DefaultMaxStackDepth} : SetMaxStackDepth(n)
    \/ \E e \in Plain, d \in 1..MaxChain : CallNew(e, d, MaxCaptured)
    \/ \E e \in Plain, skip \in 0..MaxSkip, d \in 1..MaxChain :
          CallWrap(e, skip, d, MaxCaptured)
    \/ \E e \in Plain \cup Refs(heap), skip \in 0..MaxSkip :
          \E d \in DepthsFor(e, 1..MaxChain) :
             CallWrapPrefix(e, <<>>, skip, d, MaxCaptured)
    \/ \E v \in Refs(heap) : CallStackFrames(v)

SpecStack == Init /\ [][NextStack]_vars

\* ---------------------------------------- goroutines sharing one *Error
Target == Val("Error", 1)

\* one *Error, made by Wrap from a plain error, its frames unresolved
InitConc ==
    /\ MaxStackDepth = DefaultMaxStackDepth
    /\ \E e \in Plain, skip \in 0..MaxSkip, d \in 1..MaxChain :
          heap = Wrap(<<>>, e, skip, UserChain(d)).heap
    /\ last = NoCall
    /\ pc = [p \in Procs |-> "idle"]
    /\ idx = [p \in Procs |-> 0]
    /\ out = [p \in Procs |-> <<>>]

\* a goroutine calls err.StackFrames()
Begin(p) ==
    /\ pc[p] = "idle"
    /\ pc' = [pc EXCEPT ![p] = "l199"]
    /\ UNCHANGED <<MaxStackDepth, heap, last, idx, out>>

\* line 199: if err.frames == nil
CheckNil(p) ==
    /\ pc[p] = "l199"
    /\ pc' = [pc EXCEPT ![p] = IF FramesNil(heap, Target) THEN "l200" ELSE "l207"]
    /\ UNCHANGED <<MaxStackDepth, heap, last, idx, out>>

\* line 200: err.frames = make([]StackFrame, len(err.stack))
Make(p) ==
    /\ pc[p] = "l200"
    /\ heap' = MakeFrames(heap, Target)
    /\ idx' = [idx EXCEPT ![p] = 1]
    /\ pc' = [pc EXCEPT ![p] = "l202"]
    /\ UNCHANGED <<MaxStackDepth, last, out>>

\* lines 202-204: one iteration of the range loop, or its end
Loop(p) ==
    /\ pc[p] = "l202"
    /\ IF idx[p] <= Len(heap[Target.id].stack)
       THEN /\ heap' = StoreFrame(heap, Target, idx[p])
            /\ idx' = [idx EXCEPT ![p] = idx[p] + 1]
            /\ UNCHANGED pc
       ELSE /\ pc' = [pc EXCEPT ![p] = "l207"]
            /\ UNCHANGED <<heap, idx>>
    /\ UNCHANGED <<MaxStackDepth, last, out>>

\* line 207: return err.frames; the caller reads the frames returned
Return(p) ==
    /\ pc[p] = "l207"
    /\ out' = [out EXCEPT ![p] = heap[Target.id].frames.elems]
    /\ pc' = [pc EXCEPT ![p] = "done"]
    /\ UNCHANGED <<MaxStackDepth, heap, last, idx>>

NextConc ==
    \E p \in Procs :
        \/ Begin(p)
        \/ CheckNil(p)
        \/ Make(p)
        \/ Loop(p)
        \/ Return(p)

SpecConc == InitConc /\ [][NextConc]_vars

\* ------------------------------------------------------------ properties
Sep == <<":", " ">>
NonEmptyPrefixes == Prefixes \ {<<>>}

\* the error a constructor makes of its non-nil argument
ArgError(e) == IF e.kind = "value" THEN FmtErrorf(e) ELSE e

\* v is an *Error whose Err is an *Error
Nested(h, v) == IsError(v) /\ IsError(h[v.id].Err)

\* the frames NewStackFrame makes of a stack
Resolved(stack) == [k \in 1..Len(stack) |-> NewStackFrame(stack[k])]

\* C1 as claimed: no *Error has an Err field that is itself an *Error.
C1_NoErrorWrapsError ==
    \A i \in DOMAIN heap : ~IsError(heap[i].Err)

\* C1 amended: Wrap, WrapPrefix and Errorf never put an *Error into the Err
\* of their result unless their argument was an *Error that already had one;
\* New(e) keeps an *Error e as the Err of its result.
C1_NestingOnlyFromNew ==
    /\ Nested(heap, last.ret) =>
          \/ last.op = "New" /\ IsError(last.arg)
          \/ last.op \in {"Wrap", "WrapPrefix"} /\ Nested(heap, last.arg)
    /\ (last.op = "New" /\ IsError(last.arg)) =>
          Unwrap(heap, last.ret) = last.arg

C1_Witness ==
    /\ last.op = "Wrap" /\ IsError(last.arg)
    /\ ~Nested(heap, last.ret)
    /\ \E i \in DOMAIN heap : IsError(heap[i].Err)

\* C2: Wrap of a value that is already an *Error returns that very *Error,
\* whatever the skip, and allocates and changes nothing.
C2_RewrapReturnsSame ==
    [][(last'.op = "Wrap" /\ IsError(last'.arg)) =>
          /\ last'.ret = last'.arg
          /\ heap' = heap]_vars

C2_Witness ==
    /\ last.op = "Wrap" /\ IsError(last.arg) /\ last.skip > 0
    /\ last.ret = last.arg

\* C3: Wrap and WrapPrefix of nil return nil, whatever the skip and the
\* prefix, and allocate no *Error.
C3_WrapNilIsNil ==
    [][(last'.op \in {"Wrap", "WrapPrefix"} /\ last'.arg = NilVal) =>
          /\ last'.ret = NilVal
          /\ heap' = heap]_vars

C3_Witness ==
    /\ last.op = "WrapPrefix" /\ last.arg = NilVal
    /\ last.prefix # <<>> /\ last.skip > 0
    /\ last.ret = NilVal

\* C5: the message of WrapPrefix(e, Q, skip) with Q non-empty is Q, ": " and
\* the message of e; so WrapPrefix(WrapPrefix(e, B, 0), A, 0) reads
\* "A: B: <message of e>".
C5_PrefixesOuterFirst ==
    /\ (last.op = "WrapPrefix" /\ last.arg # NilVal /\ last.prefix # <<>>) =>
          ErrorMsg(heap, last.ret) =
             last.prefix \o Sep \o ErrorMsg(heap, ArgError(last.arg))
    /\ \A e \in Plain \cup Values \cup Refs(heap) :
          \A A \in NonEmptyPrefixes, B \in NonEmptyPrefixes :
             LET r1 == WrapPrefix(heap, e, B, 0, UserChain(1))
                 r2 == WrapPrefix(r1.heap, r1.ret, A, 0, UserChain(1))
             IN  ErrorMsg(r2.heap, r2.ret) =
                    A \o Sep \o B \o Sep \o ErrorMsg(heap, ArgError(e))

C5_Witness ==
    /\ last.op = "WrapPrefix" /\ IsError(last.arg)
    /\ last.prefix = <<"A">>
    /\ heap[last.arg.id].prefix = <<"B">>
    /\ ErrorMsg(heap, last.ret) = <<"A", ":", " ", "B", ":", " ", "err", "1">>

\* C6: the Unwrap of Wrap(e, skip) and of WrapPrefix(e, prefix, skip) is e
\* for a plain error e and is Unwrap(w) for an *Error w; no call changes the
\* Err of an existing *Error.
C6_UnderlyingPreserved ==
    [][/\ last'.op \in {"Wrap", "WrapPrefix"} =>
             /\ last'.arg.kind = "plain" =>
                   /\ IsError(last'.ret)
                   /\ Unwrap(heap', last'.ret) = last'.arg
             /\ IsError(last'.arg) =>
                   /\ IsError(last'.ret)
                   /\ Unwrap(heap', last'.ret) = Unwrap(heap, last'.arg)
       /\ \A i \in DOMAIN heap :
             i \in DOMAIN heap' /\ heap'[i].Err = heap[i].Err]_vars

C6_Witness ==
    /\ last.op = "WrapPrefix" /\ last.arg.kind = "plain"
    /\ Unwrap(heap, last.ret) = last.arg
    /\ \E i \in DOMAIN heap :
          heap[i].Err = last.arg /\ Val("Error", i) # last.ret

\* C7: WrapPrefix of an *Error w returns a new *Error with the stack and the
\* Err of w, captures nothing, and leaves w and its message as they were.
C7_WrapPrefixReusesInner ==
    [][(last'.op = "WrapPrefix" /\ IsError(last'.arg)) =>
          LET w == last'.arg
              r == last'.ret
          IN  /\ IsError(r)
              /\ Len(heap') = Len(heap) + 1
              /\ CallersOf(heap', r) = CallersOf(heap, w)
              /\ Unwrap(heap', r) = Unwrap(heap, w)
              /\ heap'[w.id] = heap[w.id]
              /\ ErrorMsg(heap', w) = ErrorMsg(heap, w)]_vars

C7_Witness ==
    /\ last.op = "WrapPrefix" /\ IsError(last.arg)
    /\ last.prefix # <<>> /\ last.skip > 0
    /\ last.ret # last.arg
    /\ CallersOf(heap, last.ret) = CallersOf(heap, last.arg)
    /\ CallersOf(heap, last.ret) # <<>>
    /\ heap[last.arg.id].prefix # <<>>

\* C10 as claimed: WrapPrefix(w, Q, skip) of an *Error w with prefix P has
\* the prefix "Q: P" when both are non-empty, Q when P is empty and P when Q
\* is empty.
C10_SeparatorOnlyBetweenNonEmpty ==
    (last.op = "WrapPrefix" /\ IsError(last.arg)) =>
       LET P == heap[last.arg.id].prefix
           Q == last.prefix
       IN  heap[last.ret.id].prefix =
              IF P # <<>> /\ Q # <<>> THEN Q \o Sep \o P
              ELSE IF P = <<>> THEN Q
              ELSE P

\* the call ran runtime.Callers
Captures(c) ==
    \/ c.op = "New"
    \/ c.op \in {"Wrap", "WrapPrefix"} /\ c.arg.kind \notin {"nil", "Error"}

\* the stack does not reach the outermost frame of the caller's chain
Truncated(stack) == stack # <<>> /\ stack[Len(stack)] > 1

\* C8: a stack recorded by New, Wrap or WrapPrefix has as many entries as
\* the caller's chain has left after the skipped frames, but never more than
\* MaxStackDepth; the call returns an *Error all the same, and StackFrames
\* returns one resolved frame per recorded entry.
C8_StackBounded ==
    /\ Captures(last) =>
          /\ IsError(last.ret)
          /\ Len(CallersOf(heap, last.ret)) <= MaxStackDepth
          /\ Len(CallersOf(heap, last.ret)) =
                Min(MaxStackDepth, Max(last.depth - last.skip, 0))
    /\ last.op = "StackFrames" =>
          /\ Len(last.slice) = Len(CallersOf(heap, last.arg))
          /\ last.slice = Resolved(CallersOf(heap, last.arg))

C8_Witness ==
    /\ last.op = "StackFrames"
    /\ Truncated(CallersOf(heap, last.arg))
    /\ Len(CallersOf(heap, last.arg)) = MaxStackDepth
    /\ last.slice = Resolved(CallersOf(heap, last.arg))

\* C9: an *Error has no frames until StackFrames is first called on it; that
\* call resolves each entry of the stack once, every later call resolves
\* nothing and returns the same frames, also for an empty stack; no call of
\* StackFrames changes a stack, an Err or a prefix.
C9_ResolvedOnce ==
    [][/\ \A i \in DOMAIN heap' \ DOMAIN heap : heap'[i].frames.isNil
       /\ last'.op # "StackFrames" =>
             \A i \in DOMAIN heap : heap'[i].frames = heap[i].frames
       /\ last'.op = "StackFrames" =>
             LET v == last'.arg
                 before == heap[v.id]
                 after == heap'[v.id]
             IN  /\ before.frames.isNil =>
                       /\ last'.resolved = Len(before.stack)
                       /\ after.frames = Slice(Resolved(before.stack))
                 /\ ~before.frames.isNil =>
                       /\ last'.resolved = 0
                       /\ after.frames = before.frames
                 /\ last'.slice = after.frames.elems
                 /\ after.stack = before.stack
                 /\ after.Err = before.Err
                 /\ after.prefix = before.prefix
                 /\ \A i \in DOMAIN heap : i # v.id => heap'[i] = heap[i]
                 /\ DOMAIN heap' = DOMAIN heap]_vars

C9_Witness ==
    /\ last.op = "StackFrames"
    /\ last.resolved = 0
    /\ last.slice # <<>>
    /\ \E i \in DOMAIN heap : ~heap[i].frames.isNil /\ heap[i].stack = <<>>

\* C4 as claimed: every caller of StackFrames, under every interleaving,
\* reads one resolved frame per entry of the stack.
C4_ConcurrentFramesComplete ==
    \A p \in Procs :
       pc[p] = "done" => out[p] = Resolved(heap[Target.id].stack)

====
